---- MODULE Spec2Model ----
(***************************************************************************)
(* Model of the mission planner's runtime core:                            *)
(*   - MavlinkGPSWorker (workers/mavlink_worker.py): the link monitor      *)
(*     thread, its liveness state and the two signals it emits;            *)
(*   - TileHandler / run (tile_server.py): the offline tile server.        *)
(* Time is counted in whole seconds.  The monitor thread reads the clock   *)
(* with time.time(); the clock advances while the thread is blocked in     *)
(* wait_heartbeat() or in time.sleep(), the statements in between run      *)
(* within one clock unit.                                                  *)
(***************************************************************************)
EXTENDS Integers, Sequences, FiniteSets, TLC

\* ---------------------------------------------------------------- bounds
MaxTime == 30
TickStep == 5
MaxMsgs == 2
MaxPathLen == 7
MaxZoom == 5

\* ------------------------------------------------------ program constants
OFFLINE_TIMEOUT_S == 10

VARIABLES
    \* --- MavlinkGPSWorker
    pc,              \* position of run(): "init", "wait_heartbeat", "loop",
                     \* "recv", "check", "sleep", "done"
    running,         \* self.running
    clock,           \* time.time(), whole seconds
    last_msg_time,   \* local of run()
    alive,           \* local of run()
    msg,             \* local of run(): result of the last recv_match()
    heartbeat_log,   \* values emitted on the heartbeat signal, in order
    gps_log,         \* tuples emitted on the gps_update signal, in order
    \* --- telemetry channel (environment)
    delivered,       \* messages handed out by recv_match() so far
    silent,          \* TRUE once the channel carries no further message
    \* --- history variables (observation only, never read by the actions'
    \*     guards or by the program state updates)
    prev_rx,         \* clock value at which the last message was processed
    pos_run,         \* since the last handshake/heartbeat only position
                     \* messages were processed, each < timeout after the
                     \* previous message
    timeouts_seen,   \* consecutive timeout checks that found the timeout
                     \* exceeded (saturates at 2)
    polls_after_stop,\* recv_match() polls begun after stop() (saturates at 2)
    \* --- tile server
    server,          \* "stopped", "serving"
    request,         \* path of the request being handled, or NoRequest
    response,        \* answer to the last handled request
    archive_exists,  \* MBTILES.exists()
    archive_opened,  \* sqlite3.connect() was called for the last request
    waiting,         \* a client connection sits in the listen queue
    raised_before,   \* history: the handler of an earlier request raised
    \* --- row translation of do_GET (line 20), taken on its own
    zoom,            \* z
    row_in,          \* the row the translation started from
    row,             \* y
    applied          \* how many times line 20 was applied to row (0..2)

monitorVars == <<pc, running, clock, last_msg_time, alive, msg, heartbeat_log,
                 gps_log, delivered, silent, prev_rx, pos_run, timeouts_seen,
                 polls_after_stop>>
tileVars == <<server, request, response, archive_exists, archive_opened,
              waiting, raised_before>>
translateVars == <<zoom, row_in, row, applied>>
vars == <<monitorVars, tileVars, translateVars>>

\* ------------------------------------------------------------- messages
NoMsg == [type |-> "None"]
HeartbeatMsg == [type |-> "HEARTBEAT"]
OtherMsg == [type |-> "ATTITUDE"]
PositionMsgs ==
    { [type |-> "GLOBAL_POSITION_INT", lat |-> 123456789,
       lon |-> -987654321, relative_alt |-> 1500],
      [type |-> "GLOBAL_POSITION_INT", lat |-> -5,
       lon |-> 20, relative_alt |-> 0] }
Messages == {HeartbeatMsg, OtherMsg} \cup PositionMsgs

\* msg.lat / 1e7, msg.lon / 1e7, msg.relative_alt / 1000.0: the quotient is
\* kept as numerator and denominator.
Quot(n, d) == [num |-> n, den |-> d]

\* datetime.now().strftime("%H:%M:%S")
Strftime(t) == <<(t \div 3600) % 24, (t \div 60) % 60, t % 60>>

GpsUpdate(m, t) ==
    [lat |-> Quot(m.lat, 10000000),
     lon |-> Quot(m.lon, 10000000),
     alt |-> Quot(m.relative_alt, 1000),
     ts |-> Strftime(t),
     valid |-> TRUE]

\* time.time() - last_msg_time > self.OFFLINE_TIMEOUT_S
TimedOutGe(now, last) == now - last >= OFFLINE_TIMEOUT_S
TimedOut(now, last) == now - last > OFFLINE_TIMEOUT_S

Min(a, b) == IF a < b THEN a ELSE b

\* ============================================================ link monitor

\* line 33: while self.running
KeepLoopingAlways(r) == TRUE
KeepLooping(r) == r

\* lines 36-38: any received message refreshes last_msg_time
RefreshOnRecognizedOnly(m, now, last) ==
    IF m.type \in {"HEARTBEAT", "GLOBAL_POSITION_INT"} THEN now ELSE last
RefreshOnHeartbeatOnly(m, now, last) ==
    IF m.type = "HEARTBEAT" THEN now ELSE last
Refresh(m, now, last) == IF m # NoMsg THEN now ELSE last

\* lines 40-43: a HEARTBEAT revives an offline link
HeartbeatRevivesAlways(m, a) == m.type = "HEARTBEAT"
HeartbeatRevives(m, a) == m.type = "HEARTBEAT" /\ ~a

\* lines 45-50: a GLOBAL_POSITION_INT is forwarded on gps_update
PositionForwardedWhenAlive(m, a) == m.type = "GLOBAL_POSITION_INT" /\ a
PositionForwarded(m, a) == m.type = "GLOBAL_POSITION_INT"

\* lines 52-53: the link goes offline
GoesOfflineUnguarded(now, last, a) == TimedOut(now, last)
GoesOfflineOnTrafficOnly(now, last, a) ==
    msg # NoMsg /\ TimedOut(now, last) /\ a
GoesOffline(now, last, a) == TimedOut(now, last) /\ a

\* what recv_match(blocking=False) can return
Incoming ==
    IF silent \/ delivered >= MaxMsgs THEN {NoMsg} ELSE Messages \cup {NoMsg}

MonitorInit ==
    /\ pc = "init"
    /\ running = TRUE
    /\ clock = 0
    /\ last_msg_time = 0
    /\ alive = FALSE
    /\ msg = NoMsg
    /\ heartbeat_log = <<>>
    /\ gps_log = <<>>
    /\ delivered = 0
    /\ silent = FALSE
    /\ prev_rx = 0
    /\ pos_run = FALSE
    /\ timeouts_seen = 0
    /\ polls_after_stop = 0

\* QThread.start(): run() begins, line 21 opens the connection
Start ==
    /\ pc = "init"
    /\ pc' = "wait_heartbeat"
    /\ UNCHANGED <<running, clock, last_msg_time, alive, msg, heartbeat_log,
                   gps_log, delivered, silent, prev_rx, pos_run,
                   timeouts_seen, polls_after_stop>>
    /\ UNCHANGED <<tileVars, translateVars>>

\* the clock advances while run() is blocked
Tick ==
    /\ pc \in {"wait_heartbeat", "sleep"}
    /\ clock + TickStep <= MaxTime
    /\ clock' = clock + TickStep
    /\ UNCHANGED <<pc, running, last_msg_time, alive, msg, heartbeat_log,
                   gps_log, delivered, silent, prev_rx, pos_run,
                   timeouts_seen, polls_after_stop>>
    /\ UNCHANGED <<tileVars, translateVars>>

\* lines 26-31: wait_heartbeat() returns when the first HEARTBEAT is seen
WaitHeartbeatStaleTime ==
    /\ pc = "wait_heartbeat"
    /\ ~silent
    /\ last_msg_time' = 0
    /\ alive' = TRUE
    /\ heartbeat_log' = Append(heartbeat_log, TRUE)
    /\ pc' = "loop"
    /\ prev_rx' = clock
    /\ pos_run' = TRUE
    /\ UNCHANGED <<running, clock, msg, gps_log, delivered, silent,
                   timeouts_seen, polls_after_stop>>
    /\ UNCHANGED <<tileVars, translateVars>>
WaitHeartbeat ==
    /\ pc = "wait_heartbeat"
    /\ ~silent
    /\ last_msg_time' = clock
    /\ alive' = TRUE
    /\ heartbeat_log' = Append(heartbeat_log, TRUE)
    /\ pc' = "loop"
    /\ prev_rx' = clock
    /\ pos_run' = TRUE
    /\ UNCHANGED <<running, clock, msg, gps_log, delivered, silent,
                   timeouts_seen, polls_after_stop>>
    /\ UNCHANGED <<tileVars, translateVars>>

\* line 33
LoopTest ==
    /\ pc = "loop"
    /\ pc' = IF KeepLooping(running) THEN "recv" ELSE "done"
    /\ UNCHANGED <<running, clock, last_msg_time, alive, msg, heartbeat_log,
                   gps_log, delivered, silent, prev_rx, pos_run,
                   timeouts_seen, polls_after_stop>>
    /\ UNCHANGED <<tileVars, translateVars>>

\* lines 34-50: poll once and process what was polled
Recv ==
    /\ pc = "recv"
    /\ \E m \in Incoming :
        /\ msg' = m
        /\ delivered' = IF m # NoMsg THEN delivered + 1 ELSE delivered
        /\ last_msg_time' = Refresh(m, clock, last_msg_time)
        /\ heartbeat_log' = IF HeartbeatRevives(m, alive)
                            THEN Append(heartbeat_log, TRUE)
                            ELSE heartbeat_log
        /\ alive' = IF HeartbeatRevives(m, alive) THEN TRUE ELSE alive
        /\ gps_log' = IF PositionForwarded(m, alive)
                      THEN Append(gps_log, GpsUpdate(m, clock))
                      ELSE gps_log
        /\ prev_rx' = IF m # NoMsg THEN clock ELSE prev_rx
        /\ pos_run' = CASE m = NoMsg -> pos_run
                        [] m.type = "HEARTBEAT" -> TRUE
                        [] m.type = "GLOBAL_POSITION_INT" ->
                               pos_run /\ clock - prev_rx < OFFLINE_TIMEOUT_S
                        [] OTHER -> FALSE
    /\ polls_after_stop' = IF running THEN polls_after_stop
                           ELSE Min(polls_after_stop + 1, 2)
    /\ pc' = "check"
    /\ UNCHANGED <<running, clock, silent, timeouts_seen>>
    /\ UNCHANGED <<tileVars, translateVars>>

\* lines 52-55: the offline timeout
Check ==
    /\ pc = "check"
    /\ heartbeat_log' = IF GoesOffline(clock, last_msg_time, alive)
                        THEN Append(heartbeat_log, FALSE)
                        ELSE heartbeat_log
    /\ alive' = IF GoesOffline(clock, last_msg_time, alive) THEN FALSE ELSE alive
    /\ timeouts_seen' = IF clock - prev_rx > OFFLINE_TIMEOUT_S
                        THEN Min(timeouts_seen + 1, 2) ELSE 0
    /\ pc' = "sleep"
    /\ UNCHANGED <<running, clock, last_msg_time, msg, gps_log, delivered,
                   silent, prev_rx, pos_run, polls_after_stop>>
    /\ UNCHANGED <<tileVars, translateVars>>

\* line 57: time.sleep(0.05) returns
Sleep ==
    /\ pc = "sleep"
    /\ pc' = "loop"
    /\ UNCHANGED <<running, clock, last_msg_time, alive, msg, heartbeat_log,
                   gps_log, delivered, silent, prev_rx, pos_run,
                   timeouts_seen, polls_after_stop>>
    /\ UNCHANGED <<tileVars, translateVars>>

\* lines 59-60: stop(), called from another thread at any time
Stop ==
    /\ running
    /\ running' = FALSE
    /\ UNCHANGED <<pc, clock, last_msg_time, alive, msg, heartbeat_log,
                   gps_log, delivered, silent, prev_rx, pos_run,
                   timeouts_seen, polls_after_stop>>
    /\ UNCHANGED <<tileVars, translateVars>>

\* the sender stops transmitting for good
LinkSilence ==
    /\ ~silent
    /\ silent' = TRUE
    /\ UNCHANGED <<pc, running, clock, last_msg_time, alive, msg,
                   heartbeat_log, gps_log, delivered, prev_rx, pos_run,
                   timeouts_seen, polls_after_stop>>
    /\ UNCHANGED <<tileVars, translateVars>>

\* ============================================================= tile server

\* characters a request path is made of
PathChars == {"/", "1", "a", "-"}
Paths == UNION { [1..n -> PathChars] : n \in 1..MaxPathLen }

NoRequest == <<>>
NoResponse == [kind |-> "none"]
Pending == [kind |-> "pending"]

\* rows of the tiles table: (zoom_level, tile_column, tile_row) -> tile_data
Tiles == { [zoom_level |-> 1, tile_column |-> 1, tile_row |-> 0,
            tile_data |-> "png-1-1-0"] }

\* str.strip("/")
RECURSIVE LStrip(_)
LStrip(s) == IF s # <<>> /\ Head(s) = "/" THEN LStrip(Tail(s)) ELSE s
RECURSIVE RStrip(_)
RStrip(s) ==
    IF s # <<>> /\ s[Len(s)] = "/" THEN RStrip(SubSeq(s, 1, Len(s) - 1)) ELSE s
Strip(s) == RStrip(LStrip(s))

\* str.split("/"): always at least one part, empty parts are kept
RECURSIVE SplitFrom(_, _)
SplitFrom(s, cur) ==
    IF s = <<>> THEN <<cur>>
    ELSE IF Head(s) = "/" THEN <<cur>> \o SplitFrom(Tail(s), <<>>)
    ELSE SplitFrom(Tail(s), Append(cur, Head(s)))
Split(s) == SplitFrom(s, <<>>)

\* int(part): an optional sign and at least one digit, else ValueError
Digits(seg) == IF seg # <<>> /\ Head(seg) = "-" THEN Tail(seg) ELSE seg
IsInt(seg) ==
    /\ Digits(seg) # <<>>
    /\ \A i \in 1..Len(Digits(seg)) : Digits(seg)[i] = "1"
RECURSIVE DigitsValue(_)
DigitsValue(ds) ==
    IF ds = <<>> THEN 0
    ELSE 10 * DigitsValue(SubSeq(ds, 1, Len(ds) - 1)) + 1
IntValue(seg) ==
    IF seg # <<>> /\ Head(seg) = "-" THEN 0 - DigitsValue(Digits(seg))
    ELSE DigitsValue(Digits(seg))

\* line 20: y = (1 << z) - 1 - y   (Python integers are unbounded; the value
\* is only computed here for zoom levels the archive holds)
TmsRowOffByOne(z, y) == (2 ^ z) - y
TmsRowMisparsed(z, y) == (2 ^ z) - (1 - y)
TmsRow(z, y) == (2 ^ z) - 1 - y

\* line 34: sqlite3 binds 64-bit integers; a larger parameter raises
\* OverflowError.  x and y stay far below 2^31 in this model, so the row
\* (1 << z) - 1 - y leaves the 64-bit range exactly in these cases.
BindOverflows(z, y) == z >= 64 \/ (z = 63 /\ y < 0)

\* lines 28-36: the SELECT and fetchone()
Lookup(z, x, y) ==
    { t \in Tiles : /\ t.zoom_level = z
                    /\ t.tile_column = x
                    /\ t.tile_row = TmsRow(z, y) }

Aborted(exc) == [kind |-> "aborted", exception |-> exc]
SendError(code) == [kind |-> "response", status |-> code]
SendTile(data) ==
    [kind |-> "response", status |-> 200, content_type |-> "image/png",
     body |-> data]

\* lines 11-46: what do_GET answers to a path, and whether it opened the archive
DoGetResult(path, exists) ==
    LET parts == Split(Strip(path))
        z == IntValue(parts[1])
        x == IntValue(parts[2])
        y == IntValue(parts[3])
        rows == Lookup(z, x, y)
    IN  IF Len(parts) # 3
            THEN [response |-> SendError(404), opened |-> FALSE]
        ELSE IF \E i \in 1..3 : ~IsInt(parts[i])
            THEN [response |-> Aborted("ValueError"), opened |-> FALSE]
        ELSE IF z < 0
            THEN [response |-> Aborted("ValueError"), opened |-> FALSE]
        ELSE IF ~exists
            THEN [response |-> Aborted("FileNotFoundError"), opened |-> FALSE]
        ELSE IF BindOverflows(z, y)
            THEN [response |-> Aborted("OverflowError"), opened |-> TRUE]
        ELSE IF rows = {}
            THEN [response |-> SendError(404), opened |-> TRUE]
        ELSE [response |-> SendTile((CHOOSE t \in rows : TRUE).tile_data),
              opened |-> TRUE]

TileInit ==
    /\ server = "stopped"
    /\ request = NoRequest
    /\ response = NoResponse
    /\ archive_opened = FALSE
    /\ waiting = FALSE
    /\ raised_before = FALSE

\* lines 49-50: run()
RunServer ==
    /\ server = "stopped"
    /\ server' = "serving"
    /\ UNCHANGED <<request, response, archive_exists, archive_opened,
                   waiting, raised_before>>
    /\ UNCHANGED <<monitorVars, translateVars>>

\* a client connects to 127.0.0.1:8000; the connection waits in the listen
\* queue of the server socket until serve_forever() accepts it
ClientConnect ==
    /\ server = "serving"
    /\ ~waiting
    /\ waiting' = TRUE
    /\ UNCHANGED <<server, request, response, archive_exists, archive_opened,
                   raised_before>>
    /\ UNCHANGED <<monitorVars, translateVars>>

\* serve_forever() accepts the next connection once the previous request is
\* finished (HTTPServer handles requests one after the other in the thread
\* that runs serve_forever) and the handler reads the request line
AcceptRequest ==
    /\ server = "serving"
    /\ request = NoRequest
    /\ waiting
    /\ waiting' = FALSE
    /\ \E p \in Paths : request' = p
    /\ response' = Pending
    /\ archive_opened' = FALSE
    /\ UNCHANGED <<server, archive_exists, raised_before>>
    /\ UNCHANGED <<monitorVars, translateVars>>

\* lines 11-46: TileHandler.do_GET
DoGetConnectsFirst ==
    /\ request # NoRequest
    /\ response = Pending
    /\ response' = DoGetResult(request, archive_exists).response
    /\ archive_opened' = archive_exists
    /\ raised_before' =
         (raised_before
            \/ DoGetResult(request, archive_exists).response.kind = "aborted")
    /\ UNCHANGED <<server, request, archive_exists, waiting>>
    /\ UNCHANGED <<monitorVars, translateVars>>
DoGet ==
    /\ request # NoRequest
    /\ response = Pending
    /\ response' = DoGetResult(request, archive_exists).response
    /\ archive_opened' = DoGetResult(request, archive_exists).opened
    /\ raised_before' =
         (raised_before
            \/ DoGetResult(request, archive_exists).response.kind = "aborted")
    /\ UNCHANGED <<server, request, archive_exists, waiting>>
    /\ UNCHANGED <<monitorVars, translateVars>>

\* the connection is closed (shutdown_request), also after an exception in
\* the handler (handle_error); the server goes on serving
FinishRequestDiesOnException ==
    /\ request # NoRequest
    /\ response # Pending
    /\ request' = NoRequest
    /\ response' = NoResponse
    /\ archive_opened' = FALSE
    /\ server' = IF response.kind = "aborted" THEN "stopped" ELSE server
    /\ UNCHANGED <<archive_exists, waiting, raised_before>>
    /\ UNCHANGED <<monitorVars, translateVars>>
FinishRequest ==
    /\ request # NoRequest
    /\ response # Pending
    /\ request' = NoRequest
    /\ response' = NoResponse
    /\ archive_opened' = FALSE
    /\ UNCHANGED <<server, archive_exists, waiting, raised_before>>
    /\ UNCHANGED <<monitorVars, translateVars>>

\* ===================================================== row translation

TranslateIdle == zoom = 0 /\ row_in = 0 /\ row = 0 /\ applied = 0

\* every zoom up to MaxZoom with every valid top-origin row of that zoom
TranslateInit ==
    /\ zoom \in 0..MaxZoom
    /\ row_in \in 0..((2 ^ zoom) - 1)
    /\ row = row_in
    /\ applied = 0

\* line 20 applied to the current row
Translate ==
    /\ applied < 2
    /\ row' = TmsRow(zoom, row)
    /\ applied' = applied + 1
    /\ UNCHANGED <<zoom, row_in>>
    /\ UNCHANGED <<monitorVars, tileVars>>

\* ========================================================== specifications

Init == MonitorInit /\ TileInit /\ archive_exists = TRUE /\ TranslateIdle

Next ==
    \/ Start
    \/ Tick
    \/ WaitHeartbeat
    \/ LoopTest
    \/ Recv
    \/ Check
    \/ Sleep
    \/ Stop
    \/ LinkSilence

\* the link monitor
Spec == Init /\ [][Next]_vars

\* the link monitor with its thread scheduled fairly and time progressing
FairSpec ==
    /\ Spec
    /\ WF_vars(LoopTest) /\ WF_vars(Recv) /\ WF_vars(Check) /\ WF_vars(Sleep)
    /\ SF_vars(Tick)

TileNext ==
    RunServer \/ ClientConnect \/ AcceptRequest \/ DoGet \/ FinishRequest

\* the tile server
TileSpecInit ==
    MonitorInit /\ TileInit /\ archive_exists \in BOOLEAN /\ TranslateIdle
TileSpec == TileSpecInit /\ [][TileNext]_vars

\* the row translation on its own
TranslateSpecInit ==
    MonitorInit /\ TileInit /\ archive_exists = TRUE /\ TranslateInit
TranslateSpec == TranslateSpecInit /\ [][Translate]_vars

\* ================================================================= claims

TypeOK ==
    /\ pc \in {"init", "wait_heartbeat", "loop", "recv", "check", "sleep", "done"}
    /\ running \in BOOLEAN
    /\ clock \in 0..MaxTime
    /\ last_msg_time \in 0..MaxTime
    /\ alive \in BOOLEAN
    /\ msg \in Messages \cup {NoMsg}
    /\ heartbeat_log \in Seq(BOOLEAN)
    /\ delivered \in 0..MaxMsgs
    /\ silent \in BOOLEAN
    /\ server \in {"stopped", "serving"}

\* run() is inside its poll loop (the handshake has been seen, run() has not
\* returned)
InLoop == pc \in {"loop", "recv", "check", "sleep"}

\* the values emitted on the heartbeat signal / gps_update signal by a step
NewHeartbeats ==
    SubSeq(heartbeat_log', Len(heartbeat_log) + 1, Len(heartbeat_log'))
NewGps == SubSeq(gps_log', Len(gps_log) + 1, Len(gps_log'))
Range(s) == { s[i] : i \in DOMAIN s }

\* a step that is the poll-and-process of a message of the given types
Processes(types) == pc = "recv" /\ pc' = "check" /\ msg'.type \in types
\* a step that is the timeout check of a poll iteration
Checks == pc = "check" /\ pc' = "sleep"

\* C1: the step that takes the session from Alive to Offline emits exactly
\* one heartbeat(False) and nothing else; no other step emits heartbeat(False),
\* in particular no later timeout check made while the session is Offline.
C1_OfflineEmittedOnce ==
    [][ IF alive /\ ~alive'
        THEN NewHeartbeats = <<FALSE>>
        ELSE FALSE \notin Range(NewHeartbeats) ]_vars

\* C1 witness: Offline, heartbeat(False) was the last liveness event, and at
\* least two consecutive timeout checks have seen the timeout exceeded.
C1_Witness ==
    /\ pc = "sleep" /\ ~alive
    /\ timeouts_seen >= 2
    /\ heartbeat_log = <<TRUE, FALSE>>

\* C2 (as claimed): once stop() has been requested no step emits on either
\* signal.
C2_NoEmitAfterStop ==
    [][ ~running => (heartbeat_log' = heartbeat_log /\ gps_log' = gps_log) ]_vars

\* C3 (as claimed): whenever stop() has been requested on a started monitor,
\* run() eventually returns.
C3_StopAlwaysTerminates == (~running /\ pc # "init") ~> (pc = "done")

\* C3 (amended): a stop() requested while run() is in its poll loop is
\* followed by the return of run(), and at most one recv_match() poll is made
\* after the request.
C3_StopInLoopTerminates ==
    /\ (~running /\ InLoop) ~> (pc = "done")
    /\ [](polls_after_stop <= 1)

\* C3 witness: run() has returned after a stop() that arrived in the middle of
\* a poll iteration, one poll having been made after the request.
C3_Witness == pc = "done" /\ ~running /\ polls_after_stop = 1

\* C4 (as claimed): when the timeout check of a poll iteration is done, the
\* session is Alive exactly if a message was processed within the last
\* OFFLINE_TIMEOUT_S seconds.
C4_AliveIffRecent ==
    [][ Checks =>
          (alive' <=> clock' - last_msg_time' <= OFFLINE_TIMEOUT_S) ]_vars

InRun == InLoop /\ pos_run /\ clock - prev_rx < OFFLINE_TIMEOUT_S

\* C6: during a run of position-only traffic spaced under the timeout the
\* session is Alive and no step emits on the heartbeat signal.
C6_NonFlap ==
    /\ [](InRun => alive)
    /\ [][ (InRun /\ InRun') => heartbeat_log' = heartbeat_log ]_vars

\* C6 witness: two position messages, one and two ticks after the start, and
\* the timeout check made a tick later finds the session Alive, with the
\* handshake's heartbeat(True) as the only liveness event.
C6_Witness ==
    /\ pc = "sleep" /\ InRun /\ alive
    /\ heartbeat_log = <<TRUE>>
    /\ Len(gps_log) = 2
    /\ gps_log[1].ts = Strftime(TickStep)
    /\ gps_log[2].ts = Strftime(2 * TickStep)
    /\ clock = 3 * TickStep
    /\ timeouts_seen = 0

\* C7: processing a HEARTBEAT leaves the session Alive; it emits
\* heartbeat(True) exactly when the session was Offline before, and nothing on
\* the heartbeat signal when it was Alive.
C7_HeartbeatRecovery ==
    [][ Processes({"HEARTBEAT"}) =>
          /\ alive'
          /\ NewHeartbeats = IF alive THEN <<>> ELSE <<TRUE>> ]_vars

\* C7 witness: a heartbeat has just revived a session that had gone Offline.
C7_Witness ==
    /\ pc = "check" /\ msg = HeartbeatMsg /\ alive
    /\ heartbeat_log = <<TRUE, FALSE, TRUE>>

LastTick == (MaxTime \div TickStep) * TickStep

\* C9: once the channel is silent, an Alive session whose monitor keeps
\* running goes Offline and heartbeat(False) is emitted; every poll is
\* followed by the timeout check, whatever the poll returned, and a timeout
\* check that finds an Alive session timed out takes it Offline.
C9_SilenceDetected ==
    /\ (silent /\ alive /\ InLoop
          /\ last_msg_time + OFFLINE_TIMEOUT_S < LastTick)
       ~> (~running \/ (~alive /\ heartbeat_log # <<>>
                                /\ heartbeat_log[Len(heartbeat_log)] = FALSE))
    /\ [][ (pc = "recv" /\ pc' # "recv") => pc' = "check" ]_vars
    /\ [][ (Checks /\ alive /\ clock - last_msg_time > OFFLINE_TIMEOUT_S) =>
             (~alive' /\ NewHeartbeats = <<FALSE>>) ]_vars

\* C9 witness: the channel went silent while the session was Alive, no
\* message was ever polled, and the session is now Offline.
C9_Witness ==
    /\ silent /\ running /\ pc = "sleep" /\ ~alive
    /\ delivered = 0
    /\ heartbeat_log = <<TRUE, FALSE>>

\* the path decomposes into exactly three integers
WellFormed(path) ==
    /\ Len(Split(Strip(path))) = 3
    /\ \A i \in 1..3 : IsInt(Split(Strip(path))[i])

\* do_GET has run for the current request
Handled == request # NoRequest /\ response # Pending

\* C10 (as claimed): a request whose path does not decompose into exactly
\* three integers is answered with status 404.
C10_Malformed404 ==
    (Handled /\ ~WellFormed(request)) => response = SendError(404)

\* C11: when do_GET has run for a path that does not decompose into exactly
\* three integers, sqlite3.connect() was not called for that request (and so
\* no query was run).
C11_NoLookupOnMalformed ==
    (Handled /\ ~WellFormed(request)) => ~archive_opened

\* C11 witness: a three-segment path with a non-integer segment has been
\* handled (the handler raised) with the archive present and left unopened.
C11_Witness ==
    /\ Handled /\ archive_exists
    /\ Len(Split(Strip(request))) = 3
    /\ ~WellFormed(request)
    /\ response = Aborted("ValueError")
    /\ ~archive_opened

\* the three integers of a well-formed path
ReqZ == IntValue(Split(Strip(request))[1])
ReqX == IntValue(Split(Strip(request))[2])
ReqY == IntValue(Split(Strip(request))[3])

\* the tiles the archive holds at storage key (z, x, 2^z - 1 - y)
Stored(z, x, y) ==
    { t \in Tiles : /\ t.zoom_level = z /\ t.tile_column = x
                    /\ t.tile_row = (2 ^ z) - 1 - y }

\* C12 (as claimed): a well-formed request with non-negative zoom, column and
\* row, handled with the archive present, is answered 200 / image/png / the
\* stored bytes if the archive holds the tile at (z, x, 2^z - 1 - y), and 404
\* otherwise.
C12_HitOrMiss ==
    (Handled /\ archive_exists /\ WellFormed(request)
       /\ ReqZ >= 0 /\ ReqX >= 0 /\ ReqY >= 0)
    => IF Stored(ReqZ, ReqX, ReqY) # {}
       THEN \E t \in Stored(ReqZ, ReqX, ReqY) :
               response = [kind |-> "response", status |-> 200,
                           content_type |-> "image/png", body |-> t.tile_data]
       ELSE response = [kind |-> "response", status |-> 404]

\* C13: for every zoom and every valid row of that zoom, applying the row
\* translation twice gives back the row it started from.
C13_Involution == applied = 2 => row = row_in

\* C13 witness: at zoom 3 the translation was applied twice to row 5 (5 -> 2
\* -> 5).
C13_Witness == applied = 2 /\ zoom = 3 /\ row_in = 5 /\ row = 5

\* C14: for every zoom, one application of the row translation takes row 0
\* to 2^z - 1 and row 2^z - 1 to 0, and takes every valid row to a valid row.
C14_BoundaryAndRange ==
    applied = 1 =>
        /\ (row_in = 0 => row = (2 ^ zoom) - 1)
        /\ (row_in = (2 ^ zoom) - 1 => row = 0)
        /\ row \in 0..((2 ^ zoom) - 1)

\* C14 witness: at zoom 3 the top row 0 was translated to the bottom row 7.
C14_Witness == applied = 1 /\ zoom = 3 /\ row_in = 0 /\ row = 7

\* C15 (as claimed): a server whose archive file is absent never answers a
\* request.
C15_MissingArchiveNeverAnswers ==
    ~archive_exists => response.kind # "response"

\* the request asks for a tile the archive holds
AsksStoredTile ==
    /\ WellFormed(request)
    /\ ReqZ >= 0
    /\ Stored(ReqZ, ReqX, ReqY) # {}

\* C16: whatever requests were handled before, also requests whose handler
\* raised, the server stays in serve_forever(), finishing a request leaves it
\* ready for the next connection, and a request for a stored tile is answered
\* with status 200 and the tile.
C16_ServerSurvivesMalformed ==
    /\ [][ server = "serving" => server' = "serving" ]_vars
    /\ [][ (Handled /\ request' = NoRequest) =>
             (server' = "serving" /\ response' = NoResponse) ]_vars
    /\ [](  (Handled /\ archive_exists /\ AsksStoredTile) =>
             \E t \in Stored(ReqZ, ReqX, ReqY) :
                response = SendTile(t.tile_data) )

\* C16 witness: after a request whose handler raised, a request for the
\* stored tile has been answered with status 200.
C16_Witness ==
    /\ raised_before
    /\ server = "serving"
    /\ Handled /\ AsksStoredTile
    /\ response.kind = "response" /\ response.status = 200

\* C17 (as claimed): while a request has been accepted and not yet answered,
\* the server can accept a second connection waiting in the listen queue.
C17_SecondRequestAccepted ==
    (server = "serving" /\ waiting /\ request # NoRequest /\ response = Pending)
    => ENABLED AcceptRequest

\* the session is Connecting: the handshake has not been observed yet
Connecting == pc \in {"init", "wait_heartbeat"}

\* C18: while Connecting nothing has been emitted and nothing polled; the
\* step that leaves Connecting makes the session Alive, sets last_msg_time to
\* the time of that step and emits exactly one heartbeat(True) and nothing on
\* gps_update; a session that has left Connecting never returns to it.
C18_HandshakeGating ==
    /\ [](Connecting =>
            /\ heartbeat_log = <<>> /\ gps_log = <<>>
            /\ delivered = 0 /\ msg = NoMsg)
    /\ [][ (Connecting /\ ~Connecting') =>
             /\ alive' /\ last_msg_time' = clock
             /\ NewHeartbeats = <<TRUE>> /\ NewGps = <<>>
             /\ delivered' = 0 ]_vars
    /\ [][ ~Connecting => ~Connecting' ]_vars

\* C18 witness: the handshake was observed two ticks after the start; the
\* session is Alive, stamped with that time, with one heartbeat(True) emitted
\* and nothing polled yet.
C18_Witness ==
    /\ pc = "loop" /\ alive
    /\ clock = 2 * TickStep /\ last_msg_time = clock
    /\ heartbeat_log = <<TRUE>> /\ gps_log = <<>>
    /\ delivered = 0

\* C19: heartbeat(False) is emitted only by the timeout check of a poll
\* iteration that polled no message, finding the session Alive and more than
\* OFFLINE_TIMEOUT_S elapsed since last_msg_time.
C19_NoPrematureOffline ==
    [][ (FALSE \in Range(NewHeartbeats)) =>
          ( /\ Checks
            /\ alive
            /\ clock - last_msg_time > OFFLINE_TIMEOUT_S
            /\ msg = NoMsg ) ]_vars

\* C19 witness: the session has just gone Offline in an iteration that polled
\* nothing, three ticks after its last message; the check one iteration
\* earlier (at most two ticks, i.e. not more than the timeout) had left it
\* Alive.
C19_Witness ==
    /\ pc = "sleep" /\ ~alive /\ msg = NoMsg
    /\ heartbeat_log = <<TRUE, FALSE>>
    /\ clock - last_msg_time = 3 * TickStep
    /\ timeouts_seen = 1

\* C20: the values emitted on the heartbeat signal are True, False, True, ...
\* in strict alternation starting with True, and once the handshake is done
\* the last value emitted equals alive.
C20_LivenessAlternates ==
    /\ \A i \in 1..Len(heartbeat_log) : heartbeat_log[i] = (i % 2 = 1)
    /\ (~Connecting =>
          /\ heartbeat_log # <<>>
          /\ heartbeat_log[Len(heartbeat_log)] = alive)

\* C20 witness: the session went Offline, was revived by a heartbeat and went
\* Offline again.
C20_Witness ==
    /\ pc = "sleep" /\ ~alive
    /\ heartbeat_log = <<TRUE, FALSE, TRUE, FALSE>>

====
